---- MODULE Spec2Model ----
(***************************************************************************)
(* Model of lib/api/apiUtils/object/versioning.js: the versioning decision *)
(* functions (getMasterState, processVersioningState, ...) and the         *)
(* orchestration of versioningPreprocessing against the metadata store.    *)
(*                                                                         *)
(* JavaScript objects are functions from key names to values; a key whose  *)
(* value is undefined is a key outside the DOMAIN.  The value `undefined`  *)
(* itself (an absent objMD, an absent versioning configuration) is the     *)
(* record Undefined.                                                       *)
(***************************************************************************)
EXTENDS Integers, Sequences, FiniteSets, TLC

VARIABLES
    objMD,      \* master metadata both requests were handed (object or Undefined)
    vCfg,       \* bucketMD.getVersioningConfiguration(): Undefined or [Status |-> ..]
    md,         \* metadata store of the object key: version slot -> record
    mode,       \* "reliable": the store fails only with NoSuchKey; "faulty": any error
    pc,         \* per request: where versioningPreprocessing is suspended
    dec,        \* per request: { options, storeOptions, delOptions } of line 280
    opts,       \* per request: the `options` object (mutated at line 301)
    result,     \* per request: the arguments the callback received
    cbCalls,    \* per request: number of times the callback was called
    hist,       \* per request: metadata operations issued and answered, in order
    prior,      \* per request: the requests that had completed when it was invoked
    pin,        \* pure functions: the arguments
    pout        \* pure functions: the function applied and its return value

vars == <<objMD, vCfg, md, mode, pc, dec, opts, result, cbCalls, hist, prior, pin, pout>>

orchVars == <<objMD, vCfg, md, mode, pc, dec, opts, result, cbCalls, hist, prior>>
pureVars == <<pin, pout>>

-----------------------------------------------------------------------------
(* Bounds *)

\* longest location array of a metadata record
MaxLocs == 2

Requests == {1, 2}

-----------------------------------------------------------------------------
(* JavaScript values *)

Undefined == [undefined |-> TRUE]

\* const options = {}
EmptyObj == [k \in {} |-> TRUE]

\* o.k is not undefined
Has(o, k) == k \in DOMAIN o

\* o.k = v
SetKey(o, k, v) == (k :> v) @@ o

\* o without key k (o.k = undefined)
DelKey(o, k) == [x \in (DOMAIN o) \ {k} |-> o[x]]

\* o.k = src.sk, where src.sk may be undefined
CopyKey(o, k, src, sk) ==
    IF Has(src, sk) THEN SetKey(o, k, src[sk]) ELSE DelKey(o, k)

\* the value of o.k as an object of at most one key, for comparisons (===)
Prop(o, k) == [x \in (DOMAIN o) \cap {k} |-> o[x]]

\* Object.assign({}, a, b)
ObjectAssign(a, b) == b @@ a

\* a location is a single reference or an array of references
SingleLoc(r) == [isArray |-> FALSE, ref |-> r]
ArrayLoc(s) == [isArray |-> TRUE, refs |-> s]

\* Array.isArray(loc) ? loc : [loc]
ToArray(loc) == IF loc.isArray THEN loc.refs ELSE <<loc.ref>>

\* versionIdUtils.getInfVid(config.replicationGroupId)
nonVersionedObjId == "infVid"

-----------------------------------------------------------------------------
(* Decision functions *)

\* mutant: the upload id of the null version is taken from the master's upload
getMasterStateOwnUpload(o) ==
    IF o = Undefined THEN EmptyObj
    ELSE LET m0 == [exists |-> TRUE]
             m1 == CopyKey(m0, "versionId", o, "versionId")
             m2 == CopyKey(m1, "uploadId", o, "uploadId")
             m3 == CopyKey(m2, "isNull", o, "isNull")
             m4 == CopyKey(m3, "isNullKey", o, "isNullKey")
             m5 == CopyKey(m4, "nullVersionId", o, "nullVersionId")
             m6 == CopyKey(m5, "nullUploadId", o, "uploadId")
         IN IF Has(o, "location")
            THEN SetKey(m6, "objLocation", ToArray(o.location))
            ELSE m6

\* mutant: a single location reference is not wrapped into an array and is lost
getMasterStateArrayOnly(o) ==
    IF o = Undefined THEN EmptyObj
    ELSE LET m0 == [exists |-> TRUE]
             m1 == CopyKey(m0, "versionId", o, "versionId")
             m2 == CopyKey(m1, "uploadId", o, "uploadId")
             m3 == CopyKey(m2, "isNull", o, "isNull")
             m4 == CopyKey(m3, "isNullKey", o, "isNullKey")
             m5 == CopyKey(m4, "nullVersionId", o, "nullVersionId")
             m6 == CopyKey(m5, "nullUploadId", o, "nullUploadId")
         IN IF Has(o, "location") /\ o.location.isArray
            THEN SetKey(m6, "objLocation", o.location.refs)
            ELSE m6

getMasterState(o) ==
    IF o = Undefined THEN EmptyObj
    ELSE LET m0 == [exists |-> TRUE]
             m1 == CopyKey(m0, "versionId", o, "versionId")
             m2 == CopyKey(m1, "uploadId", o, "uploadId")
             m3 == CopyKey(m2, "isNull", o, "isNull")
             m4 == CopyKey(m3, "isNullKey", o, "isNullKey")
             m5 == CopyKey(m4, "nullVersionId", o, "nullVersionId")
             m6 == CopyKey(m5, "nullUploadId", o, "nullUploadId")
         IN IF Has(o, "location")
            THEN SetKey(m6, "objLocation", ToArray(o.location))
            ELSE m6

\* mutant: the null key is looked at before the legacy null versioned key
SuspendedNullDecisionNullKeyFirst(mst) ==
    LET options == CopyKey([versionId |-> "", isNull |-> TRUE],
                           "dataToDelete", mst, "objLocation")
    IN IF Has(mst, "isNullKey")
       THEN [options |-> options, delOptions |-> [versionId |-> "null"]]
       ELSE IF Has(mst, "isNull")
       THEN [options |-> options,
             delOptions |-> CopyKey(EmptyObj, "versionId", mst, "versionId")]
       ELSE [options |-> options]

\* master is absent, unversioned or a null version; versioning is suspended
SuspendedNullDecision(mst) ==
    LET options == CopyKey([versionId |-> "", isNull |-> TRUE],
                           "dataToDelete", mst, "objLocation")
    IN IF Has(mst, "isNull")
       THEN [options |-> options,
             delOptions |-> CopyKey(EmptyObj, "versionId", mst, "versionId")]
       ELSE IF Has(mst, "isNullKey")
       THEN [options |-> options, delOptions |-> [versionId |-> "null"]]
       ELSE [options |-> options]

\* mutant: the snapshot always gets the reserved infinite version id
EnabledNullDecisionInfVid(mst) ==
    LET options == [versioning |-> TRUE]
    IN IF Has(mst, "exists")
       THEN [options |-> options,
             storeOptions |-> [versionId |-> nonVersionedObjId, isNullKey |-> TRUE]]
       ELSE [options |-> options]

\* master is absent, unversioned or a null version; versioning is enabled
EnabledNullDecision(mst) ==
    LET options == [versioning |-> TRUE]
    IN IF Has(mst, "exists")
       THEN [options |-> options,
             storeOptions |->
                 SetKey(IF Has(mst, "isNull") \/ Has(mst, "isNullKey")
                        THEN CopyKey(EmptyObj, "versionId", mst, "versionId")
                        ELSE [versionId |-> nonVersionedObjId],
                        "isNullKey", TRUE)]
       ELSE [options |-> options]

\* mutant: the replay id is taken from the master's own upload
VersionedDecisionOwnUpload(mst, vstat) ==
    LET options == IF vstat = "Suspended"
                   THEN [versionId |-> "", isNull |-> TRUE]
                   ELSE [versioning |-> TRUE]
    IN IF Has(mst, "nullVersionId")
       THEN IF vstat = "Suspended"
            THEN [options |-> options,
                  delOptions |->
                      CopyKey([versionId |-> mst.nullVersionId, deleteData |-> TRUE],
                              "replayId", mst, "uploadId")]
            ELSE [options |-> options,
                  storeOptions |-> [versionId |-> mst.nullVersionId, isNullKey |-> TRUE],
                  delOptions |-> [versionId |-> mst.nullVersionId]]
       ELSE IF vstat = "Suspended"
            THEN [options |-> options,
                  delOptions |-> [versionId |-> "null", deleteData |-> TRUE]]
            ELSE [options |-> options]

\* mutant: without a legacy null version the null key is left alone
VersionedDecisionKeepNullKey(mst, vstat) ==
    LET options == IF vstat = "Suspended"
                   THEN [versionId |-> "", isNull |-> TRUE]
                   ELSE [versioning |-> TRUE]
    IN IF Has(mst, "nullVersionId")
       THEN IF vstat = "Suspended"
            THEN [options |-> options,
                  delOptions |->
                      CopyKey([versionId |-> mst.nullVersionId, deleteData |-> TRUE],
                              "replayId", mst, "nullUploadId")]
            ELSE [options |-> options,
                  storeOptions |-> [versionId |-> mst.nullVersionId, isNullKey |-> TRUE],
                  delOptions |-> [versionId |-> mst.nullVersionId]]
       ELSE [options |-> options]

\* master is versioned and is not a null version
VersionedDecision(mst, vstat) ==
    LET options == IF vstat = "Suspended"
                   THEN [versionId |-> "", isNull |-> TRUE]
                   ELSE [versioning |-> TRUE]
    IN IF Has(mst, "nullVersionId")
       THEN IF vstat = "Suspended"
            THEN [options |-> options,
                  delOptions |->
                      CopyKey([versionId |-> mst.nullVersionId, deleteData |-> TRUE],
                              "replayId", mst, "nullUploadId")]
            ELSE [options |-> options,
                  storeOptions |-> [versionId |-> mst.nullVersionId, isNullKey |-> TRUE],
                  delOptions |-> [versionId |-> mst.nullVersionId]]
       ELSE IF vstat = "Suspended"
            THEN [options |-> options,
                  delOptions |-> [versionId |-> "null", deleteData |-> TRUE]]
            ELSE [options |-> options]

processVersioningState(mst, vstat) ==
    IF Has(mst, "isNullKey") \/ Has(mst, "isNull") \/ ~Has(mst, "versionId")
    THEN IF vstat = "Suspended"
         THEN SuspendedNullDecision(mst)
         ELSE EnabledNullDecision(mst)
    ELSE VersionedDecision(mst, vstat)

-----------------------------------------------------------------------------
(* Version id codec (arsenal versioning.VersionID) *)

\* versionIdUtils.decode: the version id of an encoded string, or an Error
Decode(str) ==
    CASE str = "e1" -> [value |-> "v1"]
      [] str = "e2" -> [value |-> "v2"]
      [] OTHER -> [error |-> "FormatError"]

\* versionIdUtils.encode(versionId, config.versionIdEncodingType)
Encode(versionId) ==
    CASE versionId = "v1" -> "e1"
      [] versionId = "v2" -> "e2"
      [] OTHER -> "e?"

-----------------------------------------------------------------------------
(* Request helpers *)

\* mutant: the error of the codec is returned as it is
decodeVersionIdRawError(reqQuery) ==
    IF reqQuery = Undefined \/ ~Has(reqQuery, "versionId") \/ reqQuery.versionId = ""
    THEN EmptyObj
    ELSE IF reqQuery.versionId = "null" THEN [value |-> "null"]
    ELSE Decode(reqQuery.versionId)

\* the return value is an object: empty for undefined, the string under
\* "value", or the Error's name under "error"
decodeVersionId(reqQuery) ==
    IF reqQuery = Undefined \/ ~Has(reqQuery, "versionId") \/ reqQuery.versionId = ""
    THEN EmptyObj
    ELSE IF reqQuery.versionId = "null" THEN [value |-> "null"]
    ELSE LET versionId == Decode(reqQuery.versionId)
         IN IF Has(versionId, "error")
            THEN [error |-> "InvalidArgument"]
            ELSE versionId

\* mutant: a master held in the null key is not recognised as a null version
getVersionIdResHeaderNoNullKey(verCfg, objectMD) ==
    IF verCfg # Undefined
    THEN IF Has(objectMD, "isNull") \/ ~Has(objectMD, "versionId")
         THEN [value |-> "null"]
         ELSE [value |-> Encode(objectMD.versionId)]
    ELSE EmptyObj

\* the return value is an object: empty for undefined, or the string under "value"
getVersionIdResHeader(verCfg, objectMD) ==
    IF verCfg # Undefined
    THEN IF Has(objectMD, "isNullKey") \/ Has(objectMD, "isNull")
              \/ ~Has(objectMD, "versionId")
         THEN [value |-> "null"]
         ELSE [value |-> Encode(objectMD.versionId)]
    ELSE EmptyObj

\* mutant: the replay id is set whenever the object has an upload id
DeleteDataOptionsAlwaysReplay(verCfg, objectMD, req) ==
    LET o == IF verCfg = Undefined \/ Has(req, "reqVersionId")
             THEN [deleteData |-> TRUE] ELSE EmptyObj
    IN CopyKey(o, "replayId", objectMD, "uploadId")

\* first part of preprocessingVersioningDelete: deleteData and replayId
DeleteDataOptions(verCfg, objectMD, req) ==
    IF verCfg = Undefined \/ Has(req, "reqVersionId")
    THEN CopyKey([deleteData |-> TRUE], "replayId", objectMD, "uploadId")
    ELSE EmptyObj

\* mutant: the null version is always deleted through the null key
DeleteTargetOptionsNullKey(options, verCfg, objectMD, req) ==
    IF verCfg # Undefined
    THEN IF Has(req, "reqVersionId")
         THEN IF req.reqVersionId = "null"
              THEN IF Has(objectMD, "versionId")
                   THEN SetKey(options, "versionId", "null")
                   ELSE options
              ELSE SetKey(options, "versionId", req.reqVersionId)
         ELSE SetKey(options, "isNull", TRUE)
    ELSE options

\* mutant: a master without versionId is deleted through the null key
DeleteTargetOptionsImplicitNull(options, verCfg, objectMD, req) ==
    IF verCfg # Undefined
    THEN IF Has(req, "reqVersionId")
         THEN IF req.reqVersionId = "null"
              THEN IF Has(objectMD, "versionId") /\ Has(objectMD, "isNull")
                   THEN SetKey(options, "versionId", objectMD.versionId)
                   ELSE SetKey(options, "versionId", "null")
              ELSE SetKey(options, "versionId", req.reqVersionId)
         ELSE SetKey(options, "isNull", TRUE)
    ELSE options

\* second part of preprocessingVersioningDelete: versionId and isNull
DeleteTargetOptions(options, verCfg, objectMD, req) ==
    IF verCfg # Undefined
    THEN IF Has(req, "reqVersionId")
         THEN IF req.reqVersionId = "null"
              THEN IF Has(objectMD, "versionId")
                   THEN IF Has(objectMD, "isNull")
                        THEN SetKey(options, "versionId", objectMD.versionId)
                        ELSE SetKey(options, "versionId", "null")
                   ELSE options
              ELSE SetKey(options, "versionId", req.reqVersionId)
         ELSE SetKey(options, "isNull", TRUE)
    ELSE options

\* the options handed to the callback; req holds reqVersionId if it is given
preprocessingVersioningDelete(verCfg, objectMD, req) ==
    DeleteTargetOptions(DeleteDataOptions(verCfg, objectMD, req), verCfg, objectMD, req)

-----------------------------------------------------------------------------
(* Metadata store: getObjectMD / putObjectMD / deleteObjectMD on one object key *)

NoError == "null"
StoreErrors == {"NoSuchKey", "InternalError", "ServiceUnavailable"}

\* the version slot an options object addresses; no versionId is the master key
Slot(options) == IF Has(options, "versionId") THEN options.versionId ELSE "master"

\* answers putObjectMD may give
PutAnswers == IF mode = "faulty" THEN {NoError} \cup StoreErrors ELSE {NoError}

\* answers getObjectMD and deleteObjectMD may give for a slot
KeyAnswers(slot) ==
    (IF slot \in DOMAIN md THEN {NoError} ELSE {"NoSuchKey"})
        \cup (IF mode = "faulty" THEN StoreErrors ELSE {})

\* store contents after an answered putObjectMD / deleteObjectMD
StorePut(slot, rec, err) == IF err = NoError THEN (slot :> rec) @@ md ELSE md
StoreDelete(slot, err) ==
    IF err = NoError THEN [s \in (DOMAIN md) \ {slot} |-> md[s]] ELSE md

-----------------------------------------------------------------------------
(* versioningPreprocessing *)

\* positions at which a request waits for the store
IOPos == {"put", "get", "del"}

Issue(op) == <<op, "issue">>
Answer(op, err) == <<op, IF err = NoError THEN "ok" ELSE err>>

\* the request moves to position pos; entering a store position issues the operation
Goto(p, pos, h) ==
    /\ pc' = [pc EXCEPT ![p] = pos]
    /\ hist' = [hist EXCEPT ![p] = IF pos \in IOPos THEN Append(h, Issue(pos)) ELSE h]

\* mutant: a missing return lets the callback be called a second time
CallbackTwice(p, err, options, h) ==
    /\ pc' = [pc EXCEPT ![p] = "done"]
    /\ hist' = [hist EXCEPT ![p] = h]
    /\ result' = [result EXCEPT ![p] = [err |-> err, options |-> options]]
    /\ cbCalls' = [cbCalls EXCEPT ![p] = @ + 2]

\* err => callback(err, options)
Callback(p, err, options, h) ==
    /\ pc' = [pc EXCEPT ![p] = "done"]
    /\ hist' = [hist EXCEPT ![p] = h]
    /\ result' = [result EXCEPT ![p] = [err |-> err, options |-> options]]
    /\ cbCalls' = [cbCalls EXCEPT ![p] = @ + 1]

\* mutant: the snapshot is never stored
storeVersionSkip(d) == "tick_store"

\* first task of the series: where it suspends
storeVersion(d) ==
    IF ~Has(d, "storeOptions") THEN "tick_store" ELSE "put"

\* mutant: the version is always read from the store
GetLocationsPosAlwaysRead(options, mst) == "get"

\* where _getNullVersionLocationsToDelete suspends
GetLocationsPos(options, mst) ==
    IF Prop(options, "versionId") = Prop(mst, "versionId") THEN "tick_loc" ELSE "get"

\* mutant: the locations of the version to delete are never looked up
getNullVersionLocationsToDeleteNeverRead(d, mst) == "tick_get"

\* second task of the series: where it suspends
getNullVersionLocationsToDelete(d, mst) ==
    IF ~Has(d, "delOptions") \/ ~Has(d.delOptions, "deleteData")
    THEN "tick_get"
    ELSE GetLocationsPos(d.delOptions, mst)

\* third task of the series: where it suspends
deleteNullVersion(d) ==
    IF ~Has(d, "delOptions") THEN "tick_del" ELSE "del"

\* mutant: the stale record is deleted before its locations are looked up
SeriesNextSwapped(task) ==
    CASE task = "storeVersion" -> "deleteNullVersion"
      [] task = "deleteNullVersion" -> "getNullVersionLocationsToDelete"
      [] task = "getNullVersionLocationsToDelete" -> "end"

\* the task async.series runs after the given one has called next()
SeriesNext(task) ==
    CASE task = "storeVersion" -> "getNullVersionLocationsToDelete"
      [] task = "getNullVersionLocationsToDelete" -> "deleteNullVersion"
      [] task = "deleteNullVersion" -> "end"

\* where the given task suspends when async.series calls it
TaskPos(task, d, mst) ==
    CASE task = "storeVersion" -> storeVersion(d)
      [] task = "getNullVersionLocationsToDelete" -> getNullVersionLocationsToDelete(d, mst)
      [] task = "deleteNullVersion" -> deleteNullVersion(d)

\* a task called next(err): async.series stops on an error, ends after the
\* last task, and otherwise calls the next task
SeriesStep(p, task, err, options, h) ==
    IF err # NoError \/ SeriesNext(task) = "end"
    THEN Callback(p, err, options, h)
    ELSE /\ Goto(p, TaskPos(SeriesNext(task), dec[p], getMasterState(objMD)), h)
         /\ UNCHANGED <<result, cbCalls>>

\* the call of versioningPreprocessing, up to its first suspension
Invoke(p) ==
    /\ pc[p] = "idle"
    /\ prior' = [prior EXCEPT ![p] = {q \in Requests : pc[q] = "done"}]
    /\ LET mst == getMasterState(objMD)
       IN IF vCfg = Undefined
          THEN /\ opts' = [opts EXCEPT ![p] =
                              CopyKey(EmptyObj, "dataToDelete", mst, "objLocation")]
               /\ Goto(p, "tick_callback", hist[p])
               /\ UNCHANGED dec
          ELSE LET d == processVersioningState(mst, vCfg.Status)
               IN /\ opts' = [opts EXCEPT ![p] = d.options]
                  /\ dec' = [dec EXCEPT ![p] = d]
                  /\ Goto(p, TaskPos("storeVersion", d, mst), hist[p])
    /\ UNCHANGED <<objMD, vCfg, md, mode, result, cbCalls, pureVars>>

\* process.nextTick(callback, null, options) of the unversioned bucket
TickCallback(p) ==
    /\ pc[p] = "tick_callback"
    /\ Callback(p, NoError, opts[p], hist[p])
    /\ UNCHANGED <<objMD, vCfg, md, mode, dec, opts, prior, pureVars>>

\* process.nextTick(next) of storeVersion
TickStore(p) ==
    /\ pc[p] = "tick_store"
    /\ SeriesStep(p, "storeVersion", NoError, opts[p], hist[p])
    /\ UNCHANGED <<objMD, vCfg, md, mode, dec, opts, prior, pureVars>>

\* mutant: the error of putObjectMD is logged and dropped
StoreNullVersionErrorDropped(err) == NoError

\* the error _storeNullVersionMD hands to its callback for an answer of putObjectMD
StoreNullVersionError(err) == err

\* putObjectMD answers: callback of _storeNullVersionMD
StoreNullVersionMD(p) ==
    /\ pc[p] = "put"
    /\ \E err \in PutAnswers :
        /\ md' = StorePut("null", ObjectAssign(objMD, dec[p].storeOptions), err)
        /\ SeriesStep(p, "storeVersion", StoreNullVersionError(err), opts[p],
                      Append(hist[p], Answer("put", err)))
    /\ UNCHANGED <<objMD, vCfg, mode, dec, opts, prior, pureVars>>

\* process.nextTick(next) of getNullVersionLocationsToDelete
TickGet(p) ==
    /\ pc[p] = "tick_get"
    /\ SeriesStep(p, "getNullVersionLocationsToDelete", NoError, opts[p], hist[p])
    /\ UNCHANGED <<objMD, vCfg, md, mode, dec, opts, prior, pureVars>>

\* (err, nullDataToDelete) => ... of getNullVersionLocationsToDelete, where
\* loc is an object holding nullDataToDelete under "dataToDelete" if defined
LocationsCallback(p, err, loc, h) ==
    LET options == IF err = NoError /\ Has(loc, "dataToDelete")
                   THEN SetKey(opts[p], "dataToDelete", loc.dataToDelete)
                   ELSE opts[p]
    IN /\ opts' = [opts EXCEPT ![p] = options]
       /\ SeriesStep(p, "getNullVersionLocationsToDelete", err, options, h)

\* process.nextTick(cb, null, dataToDelete) of _getNullVersionLocationsToDelete
TickLocations(p) ==
    /\ pc[p] = "tick_loc"
    /\ LocationsCallback(p, NoError,
            CopyKey(EmptyObj, "dataToDelete", getMasterState(objMD), "objLocation"),
            hist[p])
    /\ UNCHANGED <<objMD, vCfg, md, mode, dec, prior, pureVars>>

\* mutant: a missing null version is reported as an error
GetObjectMDCallbackStrict(err, versionMD) ==
    IF err # NoError THEN <<err, EmptyObj>>
    ELSE IF ~Has(versionMD, "location") THEN <<NoError, EmptyObj>>
    ELSE <<NoError, [dataToDelete |-> ToArray(versionMD.location)]>>

\* mutant: a missing null version yields an empty list of locations
GetObjectMDCallbackEmptyList(err, versionMD) ==
    IF err # NoError
    THEN IF err # "NoSuchKey" THEN <<err, EmptyObj>>
         ELSE <<NoError, [dataToDelete |-> <<>>]>>
    ELSE IF ~Has(versionMD, "location") THEN <<NoError, EmptyObj>>
    ELSE <<NoError, [dataToDelete |-> ToArray(versionMD.location)]>>

\* what the callback of getObjectMD hands to cb: <<err, object with dataToDelete>>
GetObjectMDCallback(err, versionMD) ==
    IF err # NoError
    THEN IF err # "NoSuchKey" THEN <<err, EmptyObj>> ELSE <<NoError, EmptyObj>>
    ELSE IF ~Has(versionMD, "location") THEN <<NoError, EmptyObj>>
    ELSE <<NoError, [dataToDelete |-> ToArray(versionMD.location)]>>

\* getObjectMD answers: callback in _getNullVersionLocationsToDelete
GetNullVersionLocationsToDelete(p) ==
    /\ pc[p] = "get"
    /\ LET slot == Slot(dec[p].delOptions)
       IN \E err \in KeyAnswers(slot) :
            LET r == GetObjectMDCallback(err, IF err = NoError THEN md[slot] ELSE EmptyObj)
            IN LocationsCallback(p, r[1], r[2], Append(hist[p], Answer("get", err)))
    /\ UNCHANGED <<objMD, vCfg, md, mode, dec, prior, pureVars>>

\* process.nextTick(next) of deleteNullVersion
TickDelete(p) ==
    /\ pc[p] = "tick_del"
    /\ SeriesStep(p, "deleteNullVersion", NoError, opts[p], hist[p])
    /\ UNCHANGED <<objMD, vCfg, md, mode, dec, opts, prior, pureVars>>

\* mutant: the store's error is handed on as it is
DeleteNullVersionErrorRaw(err) ==
    IF err # NoError
    THEN IF err = "NoSuchKey" THEN NoError ELSE err
    ELSE NoError

\* mutant: a record that is already gone fails the request
DeleteNullVersionErrorStrict(err) ==
    IF err # NoError THEN "InternalError" ELSE NoError

\* the error deleteNullVersion hands to next for an answer of deleteObjectMD
DeleteNullVersionError(err) ==
    IF err # NoError
    THEN IF err = "NoSuchKey" THEN NoError ELSE "InternalError"
    ELSE NoError

\* deleteObjectMD answers: callbacks of _deleteNullVersionMD and deleteNullVersion
DeleteNullVersionMD(p) ==
    /\ pc[p] = "del"
    /\ LET slot == Slot(dec[p].delOptions)
       IN \E err \in KeyAnswers(slot) :
            /\ md' = StoreDelete(slot, err)
            /\ SeriesStep(p, "deleteNullVersion", DeleteNullVersionError(err), opts[p],
                          Append(hist[p], Answer("del", err)))
    /\ UNCHANGED <<objMD, vCfg, mode, dec, opts, prior, pureVars>>

\* the caller's request context is cancelled while the request is running
Cancel(p) ==
    /\ pc[p] \notin {"off", "done"}
    /\ \A i \in 1..Len(hist[p]) : hist[p][i] # <<"ctx", "cancel">>
    /\ hist' = [hist EXCEPT ![p] = Append(@, <<"ctx", "cancel">>)]
    /\ UNCHANGED <<objMD, vCfg, md, mode, pc, dec, opts, result, cbCalls, prior, pureVars>>

-----------------------------------------------------------------------------
(* Pure functions applied to arguments *)

ApplyGetMasterState ==
    /\ pout.fn # "getMasterState"
    /\ pout' = [fn |-> "getMasterState", ret |-> getMasterState(pin.objMD)]
    /\ UNCHANGED <<pin, orchVars>>

ApplyProcessVersioningState ==
    /\ pout.fn # "processVersioningState"
    /\ pout' = [fn |-> "processVersioningState",
                ret |-> processVersioningState(getMasterState(pin.objMD), pin.vstat)]
    /\ UNCHANGED <<pin, orchVars>>

ApplyPreprocessingVersioningDelete ==
    /\ pout.fn # "preprocessingVersioningDelete"
    /\ pout' = [fn |-> "preprocessingVersioningDelete",
                ret |-> preprocessingVersioningDelete(pin.vCfg, pin.objMD, pin.req)]
    /\ UNCHANGED <<pin, orchVars>>

ApplyDecodeVersionId ==
    /\ pout.fn # "decodeVersionId"
    /\ pout' = [fn |-> "decodeVersionId", ret |-> decodeVersionId(pin.reqQuery)]
    /\ UNCHANGED <<pin, orchVars>>

ApplyGetVersionIdResHeader ==
    /\ pout.fn # "getVersionIdResHeader"
    /\ pout' = [fn |-> "getVersionIdResHeader",
                ret |-> getVersionIdResHeader(pin.vCfg, pin.objMD)]
    /\ UNCHANGED <<pin, orchVars>>

-----------------------------------------------------------------------------
(* Inputs *)

\* the objects of S, each also with key k set to a value of V
OptKey(S, k, V) == S \cup {SetKey(o, k, v) : o \in S, v \in V}

\* the location values of a record whose data references are <<owner, i>>
Locations(owner) ==
    {SingleLoc(<<owner, 1>>)}
        \cup {ArrayLoc([i \in 1..n |-> <<owner, i>>]) : n \in 1..MaxLocs}

\* master records without upload ids
PlainMDs ==
    OptKey(OptKey(OptKey(OptKey(OptKey({EmptyObj},
        "versionId", {"v1"}),
        "isNull", {TRUE}),
        "isNullKey", {TRUE}),
        "nullVersionId", {"v0", "v1"}),
        "location", Locations("master"))

\* master records
ObjectMDs == OptKey(OptKey(PlainMDs, "uploadId", {"u1"}), "nullUploadId", {"u0"})

\* records of a null version in the store
NullMDs == OptKey({[versionId |-> "v0", isNull |-> TRUE]}, "location", Locations("null"))

\* contents of the store when the requests arrive
Stores ==
    {s \in [{"null", "v0", "v1", "master"} -> NullMDs \cup {Undefined}] :
        /\ s["v1"] \in {Undefined, [versionId |-> "v0", isNull |-> TRUE]}
        /\ s["master"] \in {Undefined, [versionId |-> "v0", isNull |-> TRUE]}}

\* the store as a function of the slots that hold a record
Present(s) == [k \in {x \in DOMAIN s : s[x] # Undefined} |-> s[k]]

VersioningConfigurations ==
    {Undefined, [Status |-> "Enabled"], [Status |-> "Suspended"]}

InitPure ==
    /\ pin = [objMD |-> Undefined, vstat |-> "Enabled"]
    /\ pout = [fn |-> "none"]

InitOrch(running, modes) ==
    /\ objMD \in PlainMDs \cup {Undefined}
    /\ vCfg \in VersioningConfigurations
    /\ md \in {Present(s) : s \in Stores}
    /\ mode \in modes
    /\ pc = [p \in Requests |-> IF p \in running THEN "idle" ELSE "off"]
    /\ dec = [p \in Requests |-> EmptyObj]
    /\ opts = [p \in Requests |-> EmptyObj]
    /\ result = [p \in Requests |-> EmptyObj]
    /\ cbCalls = [p \in Requests |-> 0]
    /\ hist = [p \in Requests |-> <<>>]
    /\ prior = [p \in Requests |-> {}]
    /\ InitPure

Step(p) ==
    \/ Invoke(p)
    \/ TickCallback(p)
    \/ TickStore(p)
    \/ StoreNullVersionMD(p)
    \/ TickGet(p)
    \/ TickLocations(p)
    \/ GetNullVersionLocationsToDelete(p)
    \/ TickDelete(p)
    \/ DeleteNullVersionMD(p)

\* one request against a store that may fail in any way
Init == InitOrch({1}, {"reliable", "faulty"})
Next == \E p \in Requests : Step(p)
Spec == Init /\ [][Next]_vars

\* a record whose location, if it has one, is a single location
SingleLocated(rec) == Has(rec, "location") => ~rec.location.isArray

\* one request against a store that holds at most the two null version
\* records, every location a single one; every pending tick runs and every
\* issued operation is answered
InitFair ==
    /\ InitOrch({1}, {"reliable", "faulty"})
    /\ DOMAIN md \subseteq {"null", "v0"}
    /\ objMD # Undefined => SingleLocated(objMD)
    /\ \A k \in DOMAIN md : SingleLocated(md[k])
NextFair == \E p \in Requests : Step(p)
SpecFair == InitFair /\ [][NextFair]_vars /\ \A p \in Requests : WF_vars(Step(p))

\* two concurrent requests against a store that fails only with NoSuchKey
InitConc == InitOrch(Requests, {"reliable"})
NextConc == \E p \in Requests : Step(p)
SpecConc == InitConc /\ [][NextConc]_vars

\* one request whose context may be cancelled at any time
InitCancel == InitOrch({1}, {"reliable", "faulty"})
NextCancel == \E p \in Requests : Step(p) \/ Cancel(p)
SpecCancel == InitCancel /\ [][NextCancel]_vars

\* the decision functions applied to every master record and status
InitFn ==
    /\ pin \in [objMD : ObjectMDs \cup {Undefined}, vstat : {"Enabled", "Suspended"}]
    /\ pout = [fn |-> "none"]
    /\ objMD = Undefined
    /\ vCfg = Undefined
    /\ md = EmptyObj
    /\ mode = "reliable"
    /\ pc = [p \in Requests |-> "off"]
    /\ dec = [p \in Requests |-> EmptyObj]
    /\ opts = [p \in Requests |-> EmptyObj]
    /\ result = [p \in Requests |-> EmptyObj]
    /\ cbCalls = [p \in Requests |-> 0]
    /\ hist = [p \in Requests |-> <<>>]
    /\ prior = [p \in Requests |-> {}]
NextFn == ApplyGetMasterState \/ ApplyProcessVersioningState
SpecFn == InitFn /\ [][NextFn]_vars

\* the state of the orchestration while only pure functions are applied
InitIdle ==
    /\ objMD = Undefined
    /\ vCfg = Undefined
    /\ md = EmptyObj
    /\ mode = "reliable"
    /\ pc = [p \in Requests |-> "off"]
    /\ dec = [p \in Requests |-> EmptyObj]
    /\ opts = [p \in Requests |-> EmptyObj]
    /\ result = [p \in Requests |-> EmptyObj]
    /\ cbCalls = [p \in Requests |-> 0]
    /\ hist = [p \in Requests |-> <<>>]
    /\ prior = [p \in Requests |-> {}]

\* requested version ids of a delete: none, the null version, a version
RequestedVersionIds == OptKey({EmptyObj}, "reqVersionId", {"null", "v1", "v2"})

\* request queries
RequestQueries ==
    {Undefined} \cup OptKey({EmptyObj}, "versionId", {"", "null", "e1", "e2", "bad"})

\* preprocessingVersioningDelete applied to every object, bucket and request
InitDelete ==
    /\ pin \in [objMD : ObjectMDs, vCfg : VersioningConfigurations,
                req : RequestedVersionIds]
    /\ pout = [fn |-> "none"]
    /\ InitIdle
NextDelete == ApplyPreprocessingVersioningDelete
SpecDelete == InitDelete /\ [][NextDelete]_vars

\* decodeVersionId and getVersionIdResHeader applied to every query and object
InitVid ==
    /\ pin \in [reqQuery : RequestQueries, vCfg : VersioningConfigurations,
                objMD : ObjectMDs]
    /\ pout = [fn |-> "none"]
    /\ InitIdle
NextVid == ApplyDecodeVersionId \/ ApplyGetVersionIdResHeader
SpecVid == InitVid /\ [][NextVid]_vars

-----------------------------------------------------------------------------
(* Properties *)

Idx(p) == 1..Len(hist[p])
IsIssue(e) == e[2] = "issue"
IsAnswer(e) == e[1] \in IOPos /\ e[2] # "issue"
Issued(p, op) == \E i \in Idx(p) : hist[p][i] = <<op, "issue">>
Answered(p, op, a) == \E i \in Idx(p) : hist[p][i] = <<op, a>>
Failed(p, op) == \E i \in Idx(p) : hist[p][i][1] = op /\ hist[p][i][2] \in StoreErrors
Rank(op) == CASE op = "put" -> 1 [] op = "get" -> 2 [] op = "del" -> 3
Done(p) == pc[p] = "done"

\* the locations of a record as a sequence, held under key k if there are any
LocationsOf(rec, k) ==
    IF rec = Undefined \/ ~Has(rec, "location") THEN EmptyObj
    ELSE IF rec.location.isArray THEN (k :> rec.location.refs)
    ELSE (k :> <<rec.location.ref>>)

\* C1: on a versioning-configured bucket the metadata operations of a request
\* are issued in the order putObjectMD, getObjectMD, deleteObjectMD, each only
\* after the previous one was answered, and deleteObjectMD is issued only after
\* the snapshot putObjectMD the same decision scheduled has succeeded.
C1_StepsInOrder ==
    \A p \in Requests : vCfg # Undefined =>
        /\ \A i, j \in Idx(p) :
              (i < j /\ IsIssue(hist[p][i]) /\ IsIssue(hist[p][j])) =>
                  /\ Rank(hist[p][i][1]) < Rank(hist[p][j][1])
                  /\ \E k \in Idx(p) : /\ i < k /\ k < j
                                       /\ hist[p][k][1] = hist[p][i][1]
                                       /\ IsAnswer(hist[p][k])
        /\ (Issued(p, "del") /\ Has(dec[p], "storeOptions")) =>
              \E i, j \in Idx(p) : /\ i < j
                                   /\ hist[p][i] = <<"put", "ok">>
                                   /\ hist[p][j] = <<"del", "issue">>

C1_Witness ==
    \E p \in Requests :
        /\ Done(p)
        /\ hist[p] = << <<"put", "issue">>, <<"put", "ok">>,
                        <<"del", "issue">>, <<"del", "ok">> >>

\* C2: when the snapshot putObjectMD fails, nothing is issued afterwards and
\* the callback receives the error putObjectMD gave.
C2_PutFailureAborts ==
    \A p \in Requests : \A i \in Idx(p) :
        (hist[p][i][1] = "put" /\ hist[p][i][2] \in StoreErrors) =>
            /\ i = Len(hist[p])
            /\ Done(p)
            /\ result[p].err = hist[p][i][2]

C2_Witness ==
    \E p \in Requests :
        /\ hist[p] = << <<"put", "issue">>, <<"put", "ServiceUnavailable">> >>
        /\ result[p].err = "ServiceUnavailable"
        /\ Has(dec[p], "delOptions")

\* C3: a NoSuchKey answer of deleteObjectMD makes the request succeed with its
\* putOptions; any other error of deleteObjectMD makes it fail with
\* InternalError.
C3_DeleteErrors ==
    \A p \in Requests :
        /\ Answered(p, "del", "NoSuchKey") =>
              /\ Done(p)
              /\ result[p].err = NoError
              /\ result[p].options = opts[p]
              /\ DelKey(result[p].options, "dataToDelete")
                    = DelKey(dec[p].options, "dataToDelete")
        /\ (Failed(p, "del") /\ ~Answered(p, "del", "NoSuchKey")) =>
              /\ Done(p)
              /\ result[p].err = "InternalError"

C3_Witness ==
    \E p \in Requests :
        /\ mode = "reliable"
        /\ Answered(p, "del", "NoSuchKey")
        /\ result[p].err = NoError
        /\ Has(result[p].options, "isNull")

\* C4: a NoSuchKey answer of getObjectMD attaches no locations and the
\* deleteObjectMD step is issued next; any other error of getObjectMD reaches
\* the callback unchanged and deleteObjectMD is not issued.
C4_GetErrors ==
    \A p \in Requests : \A i \in Idx(p) :
        /\ hist[p][i] = <<"get", "NoSuchKey">> =>
              /\ Prop(opts[p], "dataToDelete") = Prop(dec[p].options, "dataToDelete")
              /\ i < Len(hist[p])
              /\ hist[p][i + 1] = <<"del", "issue">>
        /\ (hist[p][i][1] = "get" /\ hist[p][i][2] \in StoreErrors \ {"NoSuchKey"}) =>
              /\ i = Len(hist[p])
              /\ Done(p)
              /\ result[p].err = hist[p][i][2]
              /\ ~Issued(p, "del")

C4_Witness ==
    \E p \in Requests :
        /\ mode = "reliable"
        /\ Done(p)
        /\ hist[p] = << <<"get", "issue">>, <<"get", "NoSuchKey">>,
                        <<"del", "issue">>, <<"del", "NoSuchKey">> >>
        /\ result[p].err = NoError

\* C5 as stated: a second run on the store the first run left behind succeeds
\* with the same putOptions, dataToDelete included.
C5_SameOptions ==
    \A p, q \in Requests :
        (q \in prior[p] /\ Done(p) /\ Done(q) /\ result[q].err = NoError) =>
            /\ result[p].err = NoError
            /\ result[p].options = result[q].options

\* C5 amended: a second run on the store the first run left behind succeeds
\* with the same putOptions except dataToDelete; dataToDelete is the same when
\* the first run issued no getObjectMD, and absent when it did.
C5_SameOptionsButLocations ==
    \A p, q \in Requests :
        (q \in prior[p] /\ Done(p) /\ Done(q) /\ result[q].err = NoError) =>
            /\ result[p].err = NoError
            /\ DelKey(result[p].options, "dataToDelete")
                  = DelKey(result[q].options, "dataToDelete")
            /\ IF Issued(q, "get")
               THEN ~Has(result[p].options, "dataToDelete")
               ELSE Prop(result[p].options, "dataToDelete")
                       = Prop(result[q].options, "dataToDelete")

C5_Witness ==
    \E p, q \in Requests :
        /\ q \in prior[p] /\ Done(p) /\ Done(q)
        /\ Answered(q, "get", "ok") /\ Answered(q, "del", "ok")
        /\ Has(result[q].options, "dataToDelete")
        /\ Answered(p, "get", "NoSuchKey") /\ Answered(p, "del", "NoSuchKey")
        /\ result[p].err = NoError
        /\ ~Has(result[p].options, "dataToDelete")

\* position of the cancellation of the request's context in its history, or 0
CancelAt(p) ==
    IF \E i \in Idx(p) : hist[p][i] = <<"ctx", "cancel">>
    THEN CHOOSE i \in Idx(p) : hist[p][i] = <<"ctx", "cancel">>
    ELSE 0

\* the error the answers of the store lead to
ErrorOfAnswers(p) ==
    IF Failed(p, "put")
    THEN (CHOOSE e \in StoreErrors : Answered(p, "put", e))
    ELSE IF Failed(p, "get") /\ ~Answered(p, "get", "NoSuchKey")
    THEN (CHOOSE e \in StoreErrors : Answered(p, "get", e))
    ELSE IF Failed(p, "del") /\ ~Answered(p, "del", "NoSuchKey")
    THEN "InternalError"
    ELSE NoError

\* C6 as stated: once the request's context is cancelled no further metadata
\* operation is issued, and a request cancelled before its first operation
\* reports a Cancelled error.
C6_CancelStopsSteps ==
    \A p \in Requests : CancelAt(p) # 0 =>
        /\ \A j \in Idx(p) : j > CancelAt(p) => ~IsIssue(hist[p][j])
        /\ (Done(p) /\ CancelAt(p) = 1 /\ Len(hist[p]) > 1) =>
              result[p].err = "Cancelled"

\* C6 amended: versioningPreprocessing takes no cancellation signal: a request
\* whose context was cancelled still issues every step its decision schedules
\* (as long as no earlier step failed), every step it started is answered
\* before the callback, and the callback gets the error the store's answers
\* lead to, never a Cancelled error.
C6_CancelIgnored ==
    \A p \in Requests : (Done(p) /\ vCfg # Undefined) =>
        /\ result[p].err = ErrorOfAnswers(p)
        /\ result[p].err # "Cancelled"
        /\ Has(dec[p], "storeOptions") => Issued(p, "put")
        /\ (Has(dec[p], "delOptions") /\ Has(dec[p].delOptions, "deleteData")
              /\ Prop(dec[p].delOptions, "versionId") # Prop(objMD, "versionId")
              /\ ~Failed(p, "put")) => Issued(p, "get")
        /\ (Has(dec[p], "delOptions") /\ ~Failed(p, "put")
              /\ (Failed(p, "get") => Answered(p, "get", "NoSuchKey"))) => Issued(p, "del")
        /\ \A op \in IOPos : Issued(p, op) =>
              \E i \in Idx(p) : hist[p][i][1] = op /\ IsAnswer(hist[p][i])

C6_Witness ==
    \E p \in Requests :
        /\ Done(p)
        /\ hist[p] = << <<"ctx", "cancel">>, <<"put", "issue">>, <<"put", "ok">>,
                        <<"del", "issue">>, <<"del", "ok">> >>
        /\ result[p].err = NoError

\* C7: two concurrent requests that started from the same master metadata,
\* against a store that fails only with NoSuchKey: in every interleaving a
\* request that completes has succeeded, whatever the other one removed.
C7_BothSucceed ==
    \A p \in Requests : Done(p) => result[p].err = NoError

C7_Witness ==
    \E p, q \in Requests :
        /\ Done(p) /\ Done(q)
        /\ q \notin prior[p] /\ p \notin prior[q]
        /\ Answered(q, "del", "ok")
        /\ Answered(p, "get", "ok")
        /\ Answered(p, "del", "NoSuchKey")
        /\ result[p].err = NoError /\ result[q].err = NoError

\* C8: on a bucket without versioning configuration a request issues no
\* metadata operation and succeeds with putOptions holding nothing but
\* dataToDelete, the master's locations as a sequence, absent when there is
\* no master record or it has no location.
C8_Unversioned ==
    \A p \in Requests : vCfg = Undefined =>
        /\ hist[p] = <<>>
        /\ Done(p) =>
              /\ result[p].err = NoError
              /\ result[p].options = LocationsOf(objMD, "dataToDelete")

C8_Witness ==
    \E p \in Requests :
        /\ vCfg = Undefined
        /\ Done(p)
        /\ objMD # Undefined /\ Has(objMD, "location") /\ ~objMD.location.isArray
        /\ result[p].options = [dataToDelete |-> << <<"master", 1>> >>]

\* the master record the decision function was applied to
Master == pin.objMD
Applied(fn) == pout.fn = fn
NullCase ==
    \/ Master = Undefined
    \/ Has(Master, "isNull") \/ Has(Master, "isNullKey") \/ ~Has(Master, "versionId")

\* C9: under Enabled, for a master that is absent, null or without versionId:
\* putOptions is {versioning: true}, there are no deleteOptions, storeOptions
\* is present exactly when a master record exists and is then
\* {versionId: v, isNullKey: true}, v being the master's versionId when the
\* master is null and the reserved infinite identifier otherwise.
C9_EnabledNull ==
    (Applied("processVersioningState") /\ pin.vstat = "Enabled" /\ NullCase) =>
        /\ pout.ret.options = [versioning |-> TRUE]
        /\ ~Has(pout.ret, "delOptions")
        /\ Has(pout.ret, "storeOptions") <=> Master # Undefined
        /\ Master # Undefined =>
              pout.ret.storeOptions =
                 IF Has(Master, "isNull") \/ Has(Master, "isNullKey")
                 THEN Prop(Master, "versionId") @@ [isNullKey |-> TRUE]
                 ELSE [versionId |-> "infVid", isNullKey |-> TRUE]

C9_Witness ==
    /\ Applied("processVersioningState") /\ pin.vstat = "Enabled"
    /\ Master # Undefined /\ Has(Master, "isNullKey") /\ ~Has(Master, "isNull")
    /\ Has(Master, "versionId")
    /\ pout.ret.storeOptions = [versionId |-> "v1", isNullKey |-> TRUE]

\* C10: under Suspended, for a master that is absent, null or without
\* versionId: putOptions is {versionId: "", isNull: true, dataToDelete: the
\* master's locations}, there are no storeOptions, deleteOptions is
\* {versionId: the master's versionId} if isNull is set, else
\* {versionId: "null"} if isNullKey is set, else absent, and deleteData is
\* never set.
C10_SuspendedNull ==
    (Applied("processVersioningState") /\ pin.vstat = "Suspended" /\ NullCase) =>
        /\ pout.ret.options =
              LocationsOf(Master, "dataToDelete") @@ [versionId |-> "", isNull |-> TRUE]
        /\ ~Has(pout.ret, "storeOptions")
        /\ IF Master # Undefined /\ Has(Master, "isNull")
           THEN /\ Has(pout.ret, "delOptions")
                /\ pout.ret.delOptions = Prop(Master, "versionId")
           ELSE IF Master # Undefined /\ Has(Master, "isNullKey")
           THEN /\ Has(pout.ret, "delOptions")
                /\ pout.ret.delOptions = [versionId |-> "null"]
           ELSE ~Has(pout.ret, "delOptions")

C10_Witness ==
    /\ Applied("processVersioningState") /\ pin.vstat = "Suspended"
    /\ Master # Undefined /\ Has(Master, "isNull") /\ Has(Master, "isNullKey")
    /\ Has(Master, "versionId") /\ Has(Master, "location")
    /\ pout.ret.delOptions = [versionId |-> "v1"]
    /\ Has(pout.ret.options, "dataToDelete")

\* a master that is a genuine version: versionId set, not a null version
Genuine(o) ==
    /\ o # Undefined
    /\ Has(o, "versionId") /\ ~Has(o, "isNull") /\ ~Has(o, "isNullKey")

\* the keys of ks that object o has
Restrict(o, ks) == [x \in (DOMAIN o) \cap ks |-> o[x]]

\* C11: for a genuine version with nullVersionId: under Enabled putOptions is
\* {versioning: true}, storeOptions is {versionId: nullVersionId, isNullKey:
\* true} and deleteOptions is {versionId: nullVersionId} without deleteData;
\* under Suspended putOptions is {versionId: "", isNull: true}, there are no
\* storeOptions and deleteOptions is {versionId: nullVersionId, deleteData:
\* true}, with replayId = nullUploadId exactly when nullUploadId is set.
C11_VersionedLegacyNull ==
    (Applied("processVersioningState") /\ Genuine(Master)
        /\ Has(Master, "nullVersionId")) =>
        IF pin.vstat = "Enabled"
        THEN pout.ret =
                [options |-> [versioning |-> TRUE],
                 storeOptions |-> [versionId |-> Master.nullVersionId,
                                   isNullKey |-> TRUE],
                 delOptions |-> [versionId |-> Master.nullVersionId]]
        ELSE pout.ret =
                [options |-> [versionId |-> "", isNull |-> TRUE],
                 delOptions |->
                    (IF Has(Master, "nullUploadId")
                     THEN [replayId |-> Master.nullUploadId] ELSE EmptyObj)
                    @@ [versionId |-> Master.nullVersionId, deleteData |-> TRUE]]

C11_Witness ==
    /\ Applied("processVersioningState") /\ pin.vstat = "Suspended"
    /\ Genuine(Master) /\ Has(Master, "nullVersionId")
    /\ Has(Master, "uploadId") /\ ~Has(Master, "nullUploadId")
    /\ Has(Master, "location")
    /\ pout.ret.delOptions = [versionId |-> "v0", deleteData |-> TRUE]

\* C12: for a genuine version without nullVersionId: under Suspended the
\* decision is putOptions {versionId: "", isNull: true} and deleteOptions
\* {versionId: "null", deleteData: true} without storeOptions; under Enabled
\* it is putOptions {versioning: true} and nothing else.
C12_VersionedNoLegacyNull ==
    (Applied("processVersioningState") /\ Genuine(Master)
        /\ ~Has(Master, "nullVersionId")) =>
        IF pin.vstat = "Suspended"
        THEN pout.ret =
                [options |-> [versionId |-> "", isNull |-> TRUE],
                 delOptions |-> [versionId |-> "null", deleteData |-> TRUE]]
        ELSE pout.ret = [options |-> [versioning |-> TRUE]]

C12_Witness ==
    /\ Applied("processVersioningState") /\ pin.vstat = "Suspended"
    /\ Genuine(Master) /\ ~Has(Master, "nullVersionId")
    /\ Has(Master, "nullUploadId")
    /\ pout.ret.delOptions = [versionId |-> "null", deleteData |-> TRUE]
    /\ DOMAIN pout.ret = {"options", "delOptions"}

\* the delete request deletes data: no versioning configuration or a version id
DeletesData == pin.vCfg = Undefined \/ Has(pin.req, "reqVersionId")

\* C13: deleteData is set exactly when the bucket has no versioning
\* configuration or a version id is requested; replayId is set, to the
\* object's uploadId, exactly in that case when the object has an uploadId; on
\* a versioned bucket without requested version id the decision is
\* {isNull: true}.
C13_DeleteData ==
    Applied("preprocessingVersioningDelete") =>
        /\ Has(pout.ret, "deleteData") <=> DeletesData
        /\ Has(pout.ret, "replayId") <=> (DeletesData /\ Has(Master, "uploadId"))
        /\ Has(pout.ret, "replayId") => pout.ret.replayId = Master.uploadId
        /\ (pin.vCfg # Undefined /\ ~Has(pin.req, "reqVersionId")) =>
              pout.ret = [isNull |-> TRUE]

C13_Witness ==
    /\ Applied("preprocessingVersioningDelete")
    /\ pin.vCfg # Undefined /\ ~Has(pin.req, "reqVersionId")
    /\ Has(Master, "uploadId") /\ Has(Master, "versionId")
    /\ pout.ret = [isNull |-> TRUE]

\* C14: on a versioned bucket a requested version id other than "null" is the
\* decision's versionId; for "null" and an object with a versionId it is the
\* object's versionId if the object is a null version (isNull) and "null"
\* otherwise; without versioning configuration no versionId is set.
C14_DeleteTarget ==
    Applied("preprocessingVersioningDelete") =>
        /\ (pin.vCfg # Undefined /\ Has(pin.req, "reqVersionId")
              /\ pin.req.reqVersionId # "null") =>
              Prop(pout.ret, "versionId") = [versionId |-> pin.req.reqVersionId]
        /\ (pin.vCfg # Undefined /\ pin.req = [reqVersionId |-> "null"]
              /\ Has(Master, "versionId")) =>
              Prop(pout.ret, "versionId") =
                 IF Has(Master, "isNull") THEN [versionId |-> Master.versionId]
                 ELSE [versionId |-> "null"]
        /\ pin.vCfg = Undefined => ~Has(pout.ret, "versionId")

C14_Witness ==
    /\ Applied("preprocessingVersioningDelete")
    /\ pin.vCfg # Undefined /\ pin.req = [reqVersionId |-> "null"]
    /\ Has(Master, "versionId") /\ Has(Master, "isNull") /\ Has(Master, "isNullKey")
    /\ pout.ret.versionId = "v1"

\* C15 as stated: on a versioned bucket, a request for version "null" of an
\* object without versionId yields {versionId: "null", deleteData: true}.
C15_ImplicitNullKey ==
    (Applied("preprocessingVersioningDelete") /\ pin.vCfg # Undefined
        /\ pin.req = [reqVersionId |-> "null"] /\ ~Has(Master, "versionId")) =>
        pout.ret = [versionId |-> "null", deleteData |-> TRUE]

\* C15 amended: on a versioned bucket, a request for version "null" of an
\* object without versionId yields {deleteData: true}, with replayId = the
\* object's uploadId if it has one, and no versionId.
C15_NoVersionIdNoTarget ==
    (Applied("preprocessingVersioningDelete") /\ pin.vCfg # Undefined
        /\ pin.req = [reqVersionId |-> "null"] /\ ~Has(Master, "versionId")) =>
        pout.ret =
            (IF Has(Master, "uploadId") THEN [replayId |-> Master.uploadId]
             ELSE EmptyObj) @@ [deleteData |-> TRUE]

C15_Witness ==
    /\ Applied("preprocessingVersioningDelete")
    /\ pin.vCfg = [Status |-> "Enabled"]
    /\ pin.req = [reqVersionId |-> "null"]
    /\ ~Has(Master, "versionId") /\ ~Has(Master, "uploadId")
    /\ pout.ret = [deleteData |-> TRUE]

C17_DecodeVersionId ==
    Applied("decodeVersionId") =>
        LET q == pin.reqQuery
        IN IF q = Undefined \/ ~Has(q, "versionId") \/ q.versionId = ""
           THEN pout.ret = EmptyObj
           ELSE IF q.versionId = "null"
           THEN pout.ret = [value |-> "null"]
           ELSE /\ Has(pout.ret, "error") <=> Has(Decode(q.versionId), "error")
                /\ Has(pout.ret, "error") => pout.ret = [error |-> "InvalidArgument"]
                /\ ~Has(pout.ret, "error") => pout.ret = Decode(q.versionId)

C17_Witness ==
    /\ Applied("decodeVersionId")
    /\ pin.reqQuery = [versionId |-> "bad"]
    /\ pout.ret = [error |-> "InvalidArgument"]

\* C18: getVersionIdResHeader returns undefined without versioning
\* configuration; with one it returns "null" for an object that is a null
\* version (isNullKey or isNull) or has no versionId, and the codec's encoding
\* of the object's versionId otherwise.
C18_VersionIdResHeader ==
    Applied("getVersionIdResHeader") =>
        IF pin.vCfg = Undefined
        THEN pout.ret = EmptyObj
        ELSE IF Has(Master, "isNullKey") \/ Has(Master, "isNull")
                \/ ~Has(Master, "versionId")
        THEN pout.ret = [value |-> "null"]
        ELSE pout.ret = [value |-> Encode(Master.versionId)]

C18_Witness ==
    /\ Applied("getVersionIdResHeader")
    /\ pin.vCfg # Undefined
    /\ Has(Master, "isNullKey") /\ ~Has(Master, "isNull") /\ Has(Master, "versionId")
    /\ pout.ret = [value |-> "null"]

\* C19: on an Enabled bucket whose master is a genuine version with a legacy
\* nullVersionId, when the request deletes the record stored under
\* nullVersionId and succeeds, the null-key slot holds a record with the data
\* locations of the deleted record.
C19_NullKeyIsCopy ==
    [][\A p \in Requests :
          (/\ pc[p] = "del" /\ pc'[p] = "done"
           /\ vCfg = [Status |-> "Enabled"]
           /\ Genuine(objMD) /\ Has(objMD, "nullVersionId")
           /\ objMD.nullVersionId \in DOMAIN md
           /\ objMD.nullVersionId \notin DOMAIN md'
           /\ result'[p].err = NoError) =>
              /\ "null" \in DOMAIN md'
              /\ LocationsOf(md'["null"], "locations")
                    = LocationsOf(md[objMD.nullVersionId], "locations")]_vars

\* the read of the locations is needed: deleteData is set and the version to
\* delete is not the master's
NeedsRead(p) ==
    /\ Has(dec[p], "delOptions") /\ Has(dec[p].delOptions, "deleteData")
    /\ Prop(dec[p].delOptions, "versionId") # Prop(objMD, "versionId")

\* the request is past the resolve-deletion-locations step
Resolved(p) ==
    /\ pc[p] \in {"tick_del", "del", "done"}
    /\ ~Failed(p, "put")
    /\ Failed(p, "get") => Answered(p, "get", "NoSuchKey")

\* C20: getObjectMD is issued exactly when deleteData is set and the version
\* to delete differs from the master's versionId; when they are equal
\* dataToDelete becomes the master's locations without a read; when the read
\* returns a record with a location dataToDelete becomes its locations as a
\* sequence; when the read finds nothing or a record without location
\* dataToDelete keeps the decision's value; for a genuine version the master's
\* locations are in dataToDelete only if the version deleted is the master's.
C20_ResolveLocations ==
    \A p \in Requests : (vCfg # Undefined /\ pc[p] \notin {"off", "idle"}) =>
        /\ Issued(p, "get") => NeedsRead(p)
        /\ (NeedsRead(p) /\ pc[p] \notin {"tick_store", "put"} /\ ~Failed(p, "put"))
              => Issued(p, "get")
        /\ (Resolved(p) /\ Has(dec[p], "delOptions")
              /\ Has(dec[p].delOptions, "deleteData") /\ ~NeedsRead(p)) =>
              Prop(opts[p], "dataToDelete") = LocationsOf(objMD, "dataToDelete")
        /\ (pc[p] = "del" /\ Answered(p, "get", "ok")) =>
              /\ Slot(dec[p].delOptions) \in DOMAIN md
              /\ Prop(opts[p], "dataToDelete") =
                    IF Has(md[Slot(dec[p].delOptions)], "location")
                    THEN LocationsOf(md[Slot(dec[p].delOptions)], "dataToDelete")
                    ELSE Prop(dec[p].options, "dataToDelete")
        /\ Answered(p, "get", "NoSuchKey") =>
              Prop(opts[p], "dataToDelete") = Prop(dec[p].options, "dataToDelete")
        /\ (Genuine(objMD) /\ Has(opts[p], "dataToDelete")
              /\ \E i \in 1..Len(opts[p].dataToDelete) :
                    opts[p].dataToDelete[i][1] = "master") =>
              /\ Has(dec[p], "delOptions")
              /\ Prop(dec[p].delOptions, "versionId") = Prop(objMD, "versionId")

C20_Witness ==
    \E p \in Requests :
        /\ Done(p) /\ result[p].err = NoError
        /\ Genuine(objMD) /\ Has(objMD, "location")
        /\ hist[p] = << <<"del", "issue">>, <<"del", "ok">> >>
        /\ Has(dec[p].delOptions, "deleteData")
        /\ Prop(result[p].options, "dataToDelete") = LocationsOf(objMD, "dataToDelete")

\* C21: the callback of a request is called exactly once: never twice, only
\* when every metadata operation the request issued has been answered, and,
\* as every pending tick runs and every issued operation is answered,
\* eventually once.
C21_CallbackOnce ==
    /\ [](\A p \in Requests :
            /\ cbCalls[p] <= 1
            /\ cbCalls[p] = 1 <=> Done(p)
            /\ Done(p) => \A op \in IOPos : Issued(p, op) =>
                  \E i \in Idx(p) : hist[p][i][1] = op /\ IsAnswer(hist[p][i]))
    /\ \A p \in Requests : (pc[p] = "idle") ~> (cbCalls[p] = 1)

C21_Witness ==
    \E p \in Requests :
        /\ cbCalls[p] = 1
        /\ hist[p] = << <<"get", "issue">>, <<"get", "ok">>,
                        <<"del", "issue">>, <<"del", "NoSuchKey">> >>
        /\ result[p].err = NoError

\* the references to data of the null version that request p returned
NullRefs(p) ==
    IF Done(p) /\ Has(result[p].options, "dataToDelete")
    THEN {result[p].options.dataToDelete[i] :
             i \in DOMAIN result[p].options.dataToDelete} \cap ({"null"} \X (1..MaxLocs + 1))
    ELSE {}

\* two requests on a Suspended bucket whose master is a genuine version
SuspendedGenuine ==
    /\ vCfg = [Status |-> "Suspended"]
    /\ Genuine(objMD)
    /\ \A p \in Requests : pc[p] # "off"

====
